---- MODULE Spec2Model ----
(***************************************************************************)
(* A model of rust-redis-again: the RESP wire decoder (src/parser.rs), the *)
(* command layer (src/commands.rs), the shared store (src/db.rs) and the   *)
(* per-connection driver (src/main.rs).                                    *)
(*                                                                         *)
(* Bytes are the integers 0..255; a byte string is a sequence of bytes.    *)
(* A usize is represented by an integer u with |u| small: u >= 0 stands    *)
(* for u and u < 0 stands for 2^64 + u, so that `len as usize`, wrapping   *)
(* addition and comparison are exact for every length the inputs can       *)
(* declare (see UsizeLt, AddOverflows).                                    *)
(***************************************************************************)
EXTENDS Integers, Sequences, FiniteSets, TLC

VARIABLES
    overflow_checks,  \* build profile: TRUE = debug (overflow panics), FALSE = release (wraps)
    db,               \* the HashMap<String, DbValue> behind the Mutex
    mutex,            \* owner of the Mutex guard, or NoOwner
    now,              \* Instant::now(), in milliseconds
    pc,               \* per connection: position in handle_connection
    buffer,           \* per connection: the BytesMut receive buffer
    net,              \* per connection: the bytes sent by the peer that read_buf has not returned yet
    out,              \* per connection: the write_all calls completed: their number, the latest bytes
    cmd,              \* per connection: the command being executed against the store
    adv,              \* per connection: `consumed` of the value being processed
    resp,             \* per connection: the response awaiting write_all
    hit,              \* per connection: Get::execute's lookup outcome, held under the lock
    vals,             \* history: per connection, the values decoded: their number, the latest
    sets,             \* history: per map key, the latest SET executed on it, in lock order
    gets,             \* history: per connection, the GET being executed, until its reply is written
    sent,             \* environment: how many requests the peers have sent
    pin,              \* decoder harness: the bytes of the stream
    pfed,             \* decoder harness: how many bytes of pin are in the buffer
    pres,             \* decoder harness: result of the latest decode of the buffer
    pfirst,           \* decoder harness: first decode result that was not Incomplete
    pat,              \* decoder harness: the buffer length at that decode
    pval,             \* decoder harness: the value pin encodes (when it is an encoding)
    penc,             \* decoder harness: length of that encoding inside pin
    cval,             \* command harness: the value handed to Command::from_resp
    cres              \* command harness: what from_resp returned for it

vars ==
    <<overflow_checks, db, mutex, now, pc, buffer, net, out, cmd, adv, resp, hit,
      vals, sets, gets, sent, pin, pfed, pres, pfirst, pat, pval, penc, cval, cres>>

serverVars ==
    <<db, mutex, now, pc, buffer, net, out, cmd, adv, resp, hit, vals, sets, gets, sent>>

harnessVars ==
    <<pin, pfed, pres, pfirst, pat, pval, penc, cval, cres>>

(***************************************************************************)
(* Bytes                                                                   *)
(***************************************************************************)
CR ==
    13
LF ==
    10
CRLF ==
    <<CR, LF>>
COLON ==
    58
PLUS ==
    43
DOLLAR ==
    36
STAR ==
    42
MINUS ==
    45
BACKTICK ==
    96
\* U+FFFD REPLACEMENT CHARACTER in UTF-8
REPLACEMENT ==
    <<239, 191, 189>>

Max(a, b) ==
    IF a >= b THEN a ELSE b

\* &s[from..] with 0-based from
SliceFrom(s, from) ==
    SubSeq(s, from + 1, Len(s))

\* &s[from..to] with 0-based from, exclusive to
Slice(s, from, to) ==
    SubSeq(s, from + 1, to)

(***************************************************************************)
(* usize arithmetic on the signed representation                           *)
(***************************************************************************)
\* a < b as usize
UsizeLt(a, b) ==
    IF (a < 0) = (b < 0) THEN a < b ELSE b < 0

\* a + b overflows usize (the wrapped sum is a + b in the representation)
AddOverflows(a, b) ==
    \/ a < 0 /\ b < 0
    \/ (a < 0 \/ b < 0) /\ a + b >= 0

(***************************************************************************)
(* core::str: UTF-8 validation, from_utf8_lossy, integer parsing, Display  *)
(***************************************************************************)
utf8_char_width(b) ==
    IF b < 128 THEN 1
    ELSE IF b >= 194 /\ b <= 223 THEN 2
    ELSE IF b >= 224 /\ b <= 239 THEN 3
    ELSE IF b >= 240 /\ b <= 244 THEN 4
    ELSE 0

safe_get(s, i) ==
    IF i <= Len(s) THEN s[i] ELSE 0

IsCont(b) ==
    b >= 128 /\ b <= 191

\* the second byte of a 3-byte sequence, by its lead byte
Second3Ok(b, c) ==
    \/ b = 224 /\ c >= 160 /\ c <= 191
    \/ b >= 225 /\ b <= 236 /\ IsCont(c)
    \/ b = 237 /\ c >= 128 /\ c <= 159
    \/ b >= 238 /\ b <= 239 /\ IsCont(c)

\* the second byte of a 4-byte sequence, by its lead byte
Second4Ok(b, c) ==
    \/ b = 240 /\ c >= 144 /\ c <= 191
    \/ b >= 241 /\ b <= 243 /\ IsCont(c)
    \/ b = 244 /\ c >= 128 /\ c <= 143

\* One step of the validator at 1-based position i: a valid character of
\* `len` bytes, or an invalid sequence of `len` bytes.
Utf8Step(s, i) ==
    LET b == s[i]
        w == utf8_char_width(b)
        good(n) == [ok |-> TRUE, len |-> n]
        bad(n) == [ok |-> FALSE, len |-> n]
    IN  IF w = 1 THEN good(1)
        ELSE IF w = 2 THEN
            IF IsCont(safe_get(s, i + 1)) THEN good(2) ELSE bad(1)
        ELSE IF w = 3 THEN
            IF ~Second3Ok(b, safe_get(s, i + 1)) THEN bad(1)
            ELSE IF ~IsCont(safe_get(s, i + 2)) THEN bad(2)
            ELSE good(3)
        ELSE IF w = 4 THEN
            IF ~Second4Ok(b, safe_get(s, i + 1)) THEN bad(1)
            ELSE IF ~IsCont(safe_get(s, i + 2)) THEN bad(2)
            ELSE IF ~IsCont(safe_get(s, i + 3)) THEN bad(3)
            ELSE good(4)
        ELSE bad(1)

RECURSIVE Utf8Scan(_, _)
\* str::from_utf8 from 1-based position i: valid, or the Utf8Error
\* (valid_up_to, error_len; error_len 0 stands for None: input ended)
Utf8Scan(s, i) ==
    IF i > Len(s) THEN [valid |-> TRUE, valid_up_to |-> Len(s), error_len |-> 0]
    ELSE LET st == Utf8Step(s, i)
         IN  IF st.ok THEN Utf8Scan(s, i + st.len)
             ELSE [valid |-> FALSE, valid_up_to |-> i - 1,
                   error_len |-> IF utf8_char_width(s[i]) > 0 /\ i + st.len > Len(s)
                                 THEN 0 ELSE st.len]

from_utf8(s) ==
    Utf8Scan(s, 1)

RECURSIVE LossyFrom(_, _)
LossyFrom(s, i) ==
    IF i > Len(s) THEN <<>>
    ELSE LET st == Utf8Step(s, i)
         IN  IF st.ok THEN SubSeq(s, i, i + st.len - 1) \o LossyFrom(s, i + st.len)
             ELSE REPLACEMENT \o LossyFrom(s, i + st.len)

\* String::from_utf8_lossy: every invalid sequence becomes U+FFFD
from_utf8_lossy(s) ==
    LossyFrom(s, 1)

to_ascii_uppercase_byte(b) ==
    IF b >= 97 /\ b <= 122 THEN b - 32 ELSE b

\* Variant of to_ascii_uppercase: the bytes as they are
keep_case(s) ==
    s

to_ascii_uppercase(s) ==
    [i \in 1..Len(s) |-> to_ascii_uppercase_byte(s[i])]

RECURSIVE Dec(_)
\* Display of a non-negative integer
Dec(n) ==
    IF n < 10 THEN <<48 + n>> ELSE Dec(n \div 10) \o <<48 + (n % 10)>>

IsDigit(b) ==
    b >= 48 /\ b <= 57

RECURSIVE DigitsValue(_, _)
DigitsValue(s, acc) ==
    IF s = <<>> THEN acc ELSE DigitsValue(Tail(s), acc * 10 + (s[1] - 48))

\* 'cannot parse integer from empty string'
MSG_IntEmpty ==
    <<99, 97, 110, 110, 111, 116, 32, 112, 97, 114, 115, 101, 32, 105, 110, 116, 101, 103, 101, 114, 32, 102, 114, 111, 109, 32, 101, 109, 112, 116, 121, 32, 115, 116, 114, 105, 110, 103>>
\* 'invalid digit found in string'
MSG_IntInvalidDigit ==
    <<105, 110, 118, 97, 108, 105, 100, 32, 100, 105, 103, 105, 116, 32, 102, 111, 117, 110, 100, 32, 105, 110, 32, 115, 116, 114, 105, 110, 103>>
\* 'invalid utf-8 sequence of '
MSG_Utf8Invalid1 ==
    <<105, 110, 118, 97, 108, 105, 100, 32, 117, 116, 102, 45, 56, 32, 115, 101, 113, 117, 101, 110, 99, 101, 32, 111, 102, 32>>
\* ' bytes from index '
MSG_Utf8Invalid2 ==
    <<32, 98, 121, 116, 101, 115, 32, 102, 114, 111, 109, 32, 105, 110, 100, 101, 120, 32>>
\* 'incomplete utf-8 byte sequence from index '
MSG_Utf8Incomplete ==
    <<105, 110, 99, 111, 109, 112, 108, 101, 116, 101, 32, 117, 116, 102, 45, 56, 32, 98, 121, 116, 101, 32, 115, 101, 113, 117, 101, 110, 99, 101, 32, 102, 114, 111, 109, 32, 105, 110, 100, 101, 120, 32>>

\* Display of Utf8Error
Utf8ErrorText(e) ==
    IF e.error_len = 0 THEN MSG_Utf8Incomplete \o Dec(e.valid_up_to)
    ELSE MSG_Utf8Invalid1 \o Dec(e.error_len) \o MSG_Utf8Invalid2 \o Dec(e.valid_up_to)

\* str::parse::<i64 | isize | u64> on valid UTF-8 text s (signed: the type
\* takes a leading '-').  The inputs of this model have fewer than ten
\* digits, so the PosOverflow / NegOverflow results cannot arise.
ParseInt(s, signed) ==
    LET fail(m) == [ok |-> FALSE, val |-> 0, msg |-> m]
        digits == IF s[1] = PLUS \/ (s[1] = MINUS /\ signed) THEN Tail(s) ELSE s
    IN  IF s = <<>> THEN fail(MSG_IntEmpty)
        ELSE IF Len(s) = 1 /\ s[1] \in {PLUS, MINUS} THEN fail(MSG_IntInvalidDigit)
        ELSE IF \E i \in 1..Len(digits) : ~IsDigit(digits[i]) THEN fail(MSG_IntInvalidDigit)
        ELSE [ok |-> TRUE,
              val |-> IF s[1] = MINUS THEN 0 - DigitsValue(digits, 0)
                      ELSE DigitsValue(digits, 0),
              msg |-> <<>>]

(***************************************************************************)
(* src/parser.rs                                                           *)
(***************************************************************************)
SimpleString(s) ==
    [t |-> "SimpleString", i |-> 0, b |-> s, a |-> <<>>]
Integer(n) ==
    [t |-> "Integer", i |-> n, b |-> <<>>, a |-> <<>>]
BulkString(s) ==
    [t |-> "BulkString", i |-> 0, b |-> s, a |-> <<>>]
Array(elements) ==
    [t |-> "Array", i |-> 0, b |-> <<>>, a |-> elements]
Null ==
    [t |-> "Null", i |-> 0, b |-> <<>>, a |-> <<>>]

\* ParseResult: Ok((value, consumed)), Err(Incomplete), Err(InvalidFormat(msg)),
\* or a panic of the thread inside parse
Ok(v, n) ==
    [tag |-> "Ok", value |-> v, consumed |-> n, msg |-> <<>>]
Incomplete ==
    [tag |-> "Incomplete", value |-> Null, consumed |-> 0, msg |-> <<>>]
InvalidFormat(m) ==
    [tag |-> "InvalidFormat", value |-> Null, consumed |-> 0, msg |-> m]
Panic ==
    [tag |-> "Panic", value |-> Null, consumed |-> 0, msg |-> <<>>]

\* 'Unknown prefix'
MSG_UnknownPrefix ==
    <<85, 110, 107, 110, 111, 119, 110, 32, 112, 114, 101, 102, 105, 120>>
\* 'Missing CRLF after bulk string data'
MSG_MissingCRLF ==
    <<77, 105, 115, 115, 105, 110, 103, 32, 67, 82, 76, 70, 32, 97, 102, 116, 101, 114, 32, 98, 117, 108, 107, 32, 115, 116, 114, 105, 110, 103, 32, 100, 97, 116, 97>>

RECURSIVE WindowsPosition(_, _)
\* The first 0-based index at or after pos whose window of 2 is "\r\n", or -1
WindowsPosition(buf, pos) ==
    IF pos + 2 > Len(buf) THEN -1
    ELSE IF buf[pos + 1] = CR /\ buf[pos + 2] = LF THEN pos
    ELSE WindowsPosition(buf, pos + 1)

\* Variant of CrlfPosition: the position of the last CRLF of the buffer
CrlfPosition_last(buf) ==
    LET found == {p \in 0..(Len(buf) - 2) : buf[p + 1] = CR /\ buf[p + 2] = LF}
    IN  IF found = {} THEN -1 ELSE CHOOSE p \in found : \A q \in found : q <= p

\* buffer.windows(2).position(|w| w == b"\r\n"): 0-based, -1 for None
CrlfPosition(buf) ==
    WindowsPosition(buf, 0)

\* Ok((line, consumed)) or Err(Incomplete); &buffer[1..pos] panics for pos = 0
parse_line(buf) ==
    LET pos == CrlfPosition(buf)
    IN  IF pos < 0 THEN [tag |-> "Incomplete", line |-> <<>>, consumed |-> 0]
        ELSE IF pos < 1 THEN [tag |-> "Panic", line |-> <<>>, consumed |-> 0]
        ELSE [tag |-> "Ok", line |-> Slice(buf, 1, pos), consumed |-> pos + 2]

\* The header line as a number: from_utf8, then parse::<i64 | isize>
LineNumber(line) ==
    LET u == from_utf8(line)
        p == ParseInt(line, TRUE)
    IN  IF ~u.valid THEN [ok |-> FALSE, val |-> 0, msg |-> Utf8ErrorText(u)]
        ELSE p

parse_integer(buf) ==
    LET l == parse_line(buf)
        n == LineNumber(l.line)
    IN  IF l.tag = "Incomplete" THEN Incomplete
        ELSE IF l.tag = "Panic" THEN Panic
        ELSE IF ~n.ok THEN InvalidFormat(n.msg)
        ELSE Ok(Integer(n.val), l.consumed)

parse_simple_string(buf) ==
    LET l == parse_line(buf)
        u == from_utf8(l.line)
    IN  IF l.tag = "Incomplete" THEN Incomplete
        ELSE IF l.tag = "Panic" THEN Panic
        ELSE IF ~u.valid THEN InvalidFormat(Utf8ErrorText(u))
        ELSE Ok(SimpleString(l.line), l.consumed)

\* Variant of BulkBody: a payload that has not arrived in full is reported
\* as a missing terminator
BulkBody_no_wait(buf, header_consumed, len) ==
    LET start == header_consumed + len
        total_len == start + 2
    IN  IF len < 0 THEN Panic
        ELSE IF Len(buf) < total_len \/ Slice(buf, start, total_len) # CRLF
            THEN InvalidFormat(MSG_MissingCRLF)
        ELSE Ok(BulkString(Slice(buf, header_consumed, start)), total_len)

\* After the header: len as usize, total_len, the length check, the CRLF
\* check and the copy of the payload (lines 71-84).
BulkBody(buf, header_consumed, len) ==
    LET start == header_consumed + len
        total_len == start + 2
    IN  IF overflow_checks /\ (AddOverflows(header_consumed, len) \/ AddOverflows(start, 2))
            THEN Panic
        ELSE IF UsizeLt(Len(buf), total_len) THEN Incomplete
        ELSE IF UsizeLt(total_len, start) THEN Panic
        ELSE IF Slice(buf, start, total_len) # CRLF THEN InvalidFormat(MSG_MissingCRLF)
        ELSE IF UsizeLt(start, header_consumed) THEN Panic
        ELSE Ok(BulkString(Slice(buf, header_consumed, start)), total_len)

parse_bulk_string(buf) ==
    LET l == parse_line(buf)
        n == LineNumber(l.line)
    IN  IF l.tag = "Incomplete" THEN Incomplete
        ELSE IF l.tag = "Panic" THEN Panic
        ELSE IF ~n.ok THEN InvalidFormat(n.msg)
        ELSE IF n.val = -1 THEN Ok(Null, l.consumed)
        ELSE BulkBody(buf, l.consumed, n.val)

RECURSIVE parse(_)
RECURSIVE ParseElements(_, _, _, _)
\* The loop of parse_array (lines 103-107)
ParseElements(buf, consumed, remaining, elements) ==
    IF remaining = 0 THEN Ok(Array(elements), consumed)
    ELSE LET r == parse(SliceFrom(buf, consumed))
         IN  IF r.tag # "Ok" THEN r
             ELSE ParseElements(buf, consumed + r.consumed, remaining - 1,
                                Append(elements, r.value))

\* Variant of parse_array: elements that have not arrived are left out
parse_array_partial(buf) ==
    LET l == parse_line(buf)
        n == LineNumber(l.line)
        r == ParseElements(buf, l.consumed, n.val, <<>>)
    IN  IF l.tag = "Incomplete" THEN Incomplete
        ELSE IF l.tag = "Panic" THEN Panic
        ELSE IF ~n.ok THEN InvalidFormat(n.msg)
        ELSE IF n.val = -1 THEN Ok(Null, l.consumed)
        ELSE IF n.val < 0 THEN Panic
        ELSE IF r.tag = "Incomplete" THEN Ok(Array(<<>>), l.consumed)
        ELSE r

\* Vec::with_capacity(len as usize) panics with "capacity overflow" when the
\* byte size exceeds isize::MAX, as it does for every negative len
parse_array(buf) ==
    LET l == parse_line(buf)
        n == LineNumber(l.line)
    IN  IF l.tag = "Incomplete" THEN Incomplete
        ELSE IF l.tag = "Panic" THEN Panic
        ELSE IF ~n.ok THEN InvalidFormat(n.msg)
        ELSE IF n.val = -1 THEN Ok(Null, l.consumed)
        ELSE IF n.val < 0 THEN Panic
        ELSE ParseElements(buf, l.consumed, n.val, <<>>)

parse(buf) ==
    IF buf = <<>> THEN Incomplete
    ELSE IF buf[1] = COLON THEN parse_integer(buf)
    ELSE IF buf[1] = PLUS THEN parse_simple_string(buf)
    ELSE IF buf[1] = DOLLAR THEN parse_bulk_string(buf)
    ELSE IF buf[1] = STAR THEN parse_array(buf)
    ELSE InvalidFormat(MSG_UnknownPrefix)

(***************************************************************************)
(* src/commands.rs                                                         *)
(***************************************************************************)
\* '-ERR '
ERR_PREFIX ==
    <<45, 69, 82, 82, 32>>
\* 'Command must be an array of bulk strings'
MSG_NotAnArray ==
    <<67, 111, 109, 109, 97, 110, 100, 32, 109, 117, 115, 116, 32, 98, 101, 32, 97, 110, 32, 97, 114, 114, 97, 121, 32, 111, 102, 32, 98, 117, 108, 107, 32, 115, 116, 114, 105, 110, 103, 115>>
\* 'Empty command'
MSG_EmptyCommand ==
    <<69, 109, 112, 116, 121, 32, 99, 111, 109, 109, 97, 110, 100>>
\* 'Command name must be a bulk string'
MSG_CommandNotBulkString ==
    <<67, 111, 109, 109, 97, 110, 100, 32, 110, 97, 109, 101, 32, 109, 117, 115, 116, 32, 98, 101, 32, 97, 32, 98, 117, 108, 107, 32, 115, 116, 114, 105, 110, 103>>
\* 'unknown command `'
MSG_UnknownCommand ==
    <<117, 110, 107, 110, 111, 119, 110, 32, 99, 111, 109, 109, 97, 110, 100, 32, 96>>
\* 'wrong number of arguments'
MSG_WrongArgCount ==
    <<119, 114, 111, 110, 103, 32, 110, 117, 109, 98, 101, 114, 32, 111, 102, 32, 97, 114, 103, 117, 109, 101, 110, 116, 115>>
\* 'invalid argument: '
MSG_InvalidArgument ==
    <<105, 110, 118, 97, 108, 105, 100, 32, 97, 114, 103, 117, 109, 101, 110, 116, 58, 32>>
\* 'argument must be a bulk string'
REASON_NotBulk ==
    <<97, 114, 103, 117, 109, 101, 110, 116, 32, 109, 117, 115, 116, 32, 98, 101, 32, 97, 32, 98, 117, 108, 107, 32, 115, 116, 114, 105, 110, 103>>
\* 'PING argument must be a bulk string'
REASON_PingNotBulk ==
    <<80, 73, 78, 71, 32, 97, 114, 103, 117, 109, 101, 110, 116, 32, 109, 117, 115, 116, 32, 98, 101, 32, 97, 32, 98, 117, 108, 107, 32, 115, 116, 114, 105, 110, 103>>
\* 'syntax error'
REASON_Syntax ==
    <<115, 121, 110, 116, 97, 120, 32, 101, 114, 114, 111, 114>>
\* 'PX option specified multiple times'
REASON_PxTwice ==
    <<80, 88, 32, 111, 112, 116, 105, 111, 110, 32, 115, 112, 101, 99, 105, 102, 105, 101, 100, 32, 109, 117, 108, 116, 105, 112, 108, 101, 32, 116, 105, 109, 101, 115>>
\* 'PX value must be valid UTF-8'
REASON_PxUtf8 ==
    <<80, 88, 32, 118, 97, 108, 117, 101, 32, 109, 117, 115, 116, 32, 98, 101, 32, 118, 97, 108, 105, 100, 32, 85, 84, 70, 45, 56>>
\* 'PX value must be a positive integer'
REASON_PxInt ==
    <<80, 88, 32, 118, 97, 108, 117, 101, 32, 109, 117, 115, 116, 32, 98, 101, 32, 97, 32, 112, 111, 115, 105, 116, 105, 118, 101, 32, 105, 110, 116, 101, 103, 101, 114>>
\* '+PONG\r\n'
PONG ==
    <<43, 80, 79, 78, 71, 13, 10>>
\* '+OK\r\n'
OK ==
    <<43, 79, 75, 13, 10>>
\* '$-1\r\n'
NULL_BULK ==
    <<36, 45, 49, 13, 10>>
\* 'PING'
VERB_PING ==
    <<80, 73, 78, 71>>
\* 'ECHO'
VERB_ECHO ==
    <<69, 67, 72, 79>>
\* 'GET'
VERB_GET ==
    <<71, 69, 84>>
\* 'SET'
VERB_SET ==
    <<83, 69, 84>>
\* 'PX'
OPT_PX ==
    <<80, 88>>

\* CommandError, with its Display text
NotAnArray ==
    [kind |-> "NotAnArray", text |-> MSG_NotAnArray]
EmptyCommand ==
    [kind |-> "EmptyCommand", text |-> MSG_EmptyCommand]
CommandNotBulkString ==
    [kind |-> "CommandNotBulkString", text |-> MSG_CommandNotBulkString]
UnknownCommand(name) ==
    [kind |-> "UnknownCommand", text |-> MSG_UnknownCommand \o name \o <<BACKTICK>>]
WrongArgCount ==
    [kind |-> "WrongArgCount", text |-> MSG_WrongArgCount]
InvalidArgument(reason) ==
    [kind |-> "InvalidArgument", text |-> MSG_InvalidArgument \o reason]

\* The parsed commands: Ping { msg }, Echo { msg }, Get { key }, Set { key, value, px }
NoCmd ==
    [name |-> "None", has_msg |-> FALSE, msg |-> <<>>, key |-> <<>>, value |-> <<>>,
     has_px |-> FALSE, px |-> 0]
Ping(has_msg, msg) ==
    [NoCmd EXCEPT !.name = "Ping", !.has_msg = has_msg, !.msg = msg]
Echo(msg) ==
    [NoCmd EXCEPT !.name = "Echo", !.has_msg = TRUE, !.msg = msg]
Get(key) ==
    [NoCmd EXCEPT !.name = "Get", !.key = key]
Set(key, value, has_px, px) ==
    [NoCmd EXCEPT !.name = "Set", !.key = key, !.value = value, !.has_px = has_px, !.px = px]

\* Result<Command, CommandError>
CmdOk(c) ==
    [ok |-> TRUE, cmd |-> c, err |-> [kind |-> "None", text |-> <<>>]]
CmdErr(e) ==
    [ok |-> FALSE, cmd |-> NoCmd, err |-> e]

\* ArgParser::next_bulk_string at 1-based position i of args
next_bulk_string(args, i) ==
    IF i > Len(args) THEN [ok |-> FALSE, bs |-> <<>>, err |-> WrongArgCount]
    ELSE IF args[i].t = "BulkString" THEN [ok |-> TRUE, bs |-> args[i].b, err |-> WrongArgCount]
    ELSE [ok |-> FALSE, bs |-> <<>>, err |-> InvalidArgument(REASON_NotBulk)]

\* ArgParser::finish with the iterator at position i: TRUE when Ok(())
finish(args, i) ==
    i > Len(args)

PingParse(args) ==
    IF Len(args) = 0 THEN CmdOk(Ping(FALSE, <<>>))
    ELSE IF args[1].t # "BulkString" THEN CmdErr(InvalidArgument(REASON_PingNotBulk))
    ELSE IF ~finish(args, 2) THEN CmdErr(WrongArgCount)
    ELSE CmdOk(Ping(TRUE, args[1].b))

EchoParse(args) ==
    LET m == next_bulk_string(args, 1)
    IN  IF ~m.ok THEN CmdErr(m.err)
        ELSE IF ~finish(args, 2) THEN CmdErr(WrongArgCount)
        ELSE CmdOk(Echo(m.bs))

GetParse(args) ==
    LET k == next_bulk_string(args, 1)
    IN  IF ~k.ok THEN CmdErr(k.err)
        ELSE IF ~finish(args, 2) THEN CmdErr(WrongArgCount)
        ELSE CmdOk(Get(k.bs))

RECURSIVE SetOptions(_, _, _, _, _, _)
\* The option loop of Set::parse (lines 168-204), the iterator at position i
SetOptions(args, i, key, value, has_px, px) ==
    IF i > Len(args) THEN CmdOk(Set(key, value, has_px, px))
    ELSE IF args[i].t # "BulkString" THEN CmdErr(InvalidArgument(REASON_Syntax))
    ELSE IF to_ascii_uppercase(args[i].b) # OPT_PX THEN CmdErr(InvalidArgument(REASON_Syntax))
    ELSE IF has_px THEN CmdErr(InvalidArgument(REASON_PxTwice))
    ELSE LET v == next_bulk_string(args, i + 1)
             n == ParseInt(v.bs, FALSE)
         IN  IF ~v.ok THEN CmdErr(v.err)
             ELSE IF ~from_utf8(v.bs).valid THEN CmdErr(InvalidArgument(REASON_PxUtf8))
             ELSE IF ~n.ok THEN CmdErr(InvalidArgument(REASON_PxInt))
             ELSE SetOptions(args, i + 2, key, value, TRUE, n.val)

\* Variant of SetParse: whatever follows the value is ignored
SetParse_ignores_options(args) ==
    LET k == next_bulk_string(args, 1)
        v == next_bulk_string(args, 2)
    IN  IF ~k.ok THEN CmdErr(k.err)
        ELSE IF ~v.ok THEN CmdErr(v.err)
        ELSE CmdOk(Set(k.bs, v.bs, FALSE, 0))

SetParse(args) ==
    LET k == next_bulk_string(args, 1)
        v == next_bulk_string(args, 2)
    IN  IF ~k.ok THEN CmdErr(k.err)
        ELSE IF ~v.ok THEN CmdErr(v.err)
        ELSE SetOptions(args, 3, k.bs, v.bs, FALSE, 0)

\* Command::from_resp
from_resp(value) ==
    LET elements == value.a
        cmd_name == to_ascii_uppercase(from_utf8_lossy(elements[1].b))
        args == Tail(elements)
    IN  IF value.t # "Array" THEN CmdErr(NotAnArray)
        ELSE IF elements = <<>> THEN CmdErr(EmptyCommand)
        ELSE IF elements[1].t # "BulkString" THEN CmdErr(CommandNotBulkString)
        ELSE IF cmd_name = VERB_PING THEN PingParse(args)
        ELSE IF cmd_name = VERB_ECHO THEN EchoParse(args)
        ELSE IF cmd_name = VERB_GET THEN GetParse(args)
        ELSE IF cmd_name = VERB_SET THEN SetParse(args)
        ELSE CmdErr(UnknownCommand(cmd_name))

\* format!("${}\r\n{}\r\n", n, text)
BulkFormat(n, text) ==
    <<DOLLAR>> \o Dec(n) \o CRLF \o text \o CRLF

\* format!("-ERR {}\r\n", e)
ErrorReply(text) ==
    ERR_PREFIX \o text \o CRLF

\* Ping::execute and Echo::execute: the declared length is msg.len(), the
\* payload is String::from_utf8_lossy(&msg)
PingExecute(c) ==
    IF c.has_msg THEN BulkFormat(Len(c.msg), from_utf8_lossy(c.msg)) ELSE PONG

EchoExecute(c) ==
    BulkFormat(Len(c.msg), from_utf8_lossy(c.msg))

\* The key of the map: String::from_utf8_lossy(&key).to_ascii_uppercase()
KeyString(key) ==
    to_ascii_uppercase(from_utf8_lossy(key))

\* Get::execute's reply on a live entry (lines 147-148)
GetHitReply(value) ==
    LET string_value == from_utf8_lossy(value)
    IN  BulkFormat(Len(string_value), string_value)

\* Instant::now() >= expires_at (lines 141-142)
Expired(entry, t) ==
    entry.has_expiry /\ t >= entry.expires_at

\* DbValue { value, expires_at }; expires_at = px.map(|ms| now + ms)
DbValue(c, t) ==
    [value |-> c.value, has_expiry |-> c.has_px, expires_at |-> IF c.has_px THEN t + c.px ELSE 0]

\* HashMap::insert and HashMap::remove
MapInsert(m, k, v) ==
    [x \in DOMAIN m \cup {k} |-> IF x = k THEN v ELSE m[x]]
MapRemove(m, k) ==
    [x \in DOMAIN m \ {k} |-> m[x]]

(***************************************************************************)
(* The wire format as a peer writes it (spec section 6; the test buffers   *)
(* of src/parser.rs): the inputs the decoder and the server are given.     *)
(***************************************************************************)
SignedDec(n) ==
    IF n < 0 THEN <<MINUS>> \o Dec(0 - n) ELSE Dec(n)

RECURSIVE Flatten(_)
Flatten(ss) ==
    IF ss = <<>> THEN <<>> ELSE Head(ss) \o Flatten(Tail(ss))

RECURSIVE Enc(_, _)
\* The encoding of value v; a Null is written as the null bulk string
\* ($-1) or, with nullAsArray, as the null array (*-1)
Enc(v, nullAsArray) ==
    IF v.t = "Integer" THEN <<COLON>> \o SignedDec(v.i) \o CRLF
    ELSE IF v.t = "SimpleString" THEN <<PLUS>> \o v.b \o CRLF
    ELSE IF v.t = "BulkString" THEN <<DOLLAR>> \o Dec(Len(v.b)) \o CRLF \o v.b \o CRLF
    ELSE IF v.t = "Array" THEN
        <<STAR>> \o Dec(Len(v.a)) \o CRLF
            \o Flatten([k \in 1..Len(v.a) |-> Enc(v.a[k], nullAsArray)])
    ELSE <<IF nullAsArray THEN STAR ELSE DOLLAR, MINUS, 49>> \o CRLF

\* All sequences over S of length at most n
SeqsUpTo(S, n) ==
    UNION {[1..k -> S] : k \in 0..n}

(***************************************************************************)
(* Decoder harness: a stream pin is fed to a buffer in arbitrary chunks    *)
(* and RespValue::parse is applied to the buffer after any of them.        *)
(***************************************************************************)
MaxArrayLen ==
    2
MaxDigits ==
    2

\* from_resp not called yet
NoCmdResult ==
    [ok |-> FALSE, cmd |-> NoCmd, err |-> [kind |-> "Pending", text |-> <<>>]]

NoResult ==
    [tag |-> "None", value |-> Null, consumed |-> 0, msg |-> <<>>]
NoValue ==
    [t |-> "None", i |-> 0, b |-> <<>>, a |-> <<>>]

Leaves ==
    { Integer(0), Integer(-12), SimpleString(<<>>), SimpleString(<<79, 75>>),
      BulkString(<<>>), BulkString(<<97>>), BulkString(CRLF), BulkString(<<255>>), Null }

\* The elements of the arrays
Elems ==
    { Integer(7), BulkString(<<80>>), Null, Array(<<SimpleString(<<79>>)>>) }

HarnessValues ==
    Leaves \cup {Array(e) : e \in SeqsUpTo(Elems, MaxArrayLen)}

\* Bytes that follow an encoding in the stream
Trailing ==
    { <<>>, CRLF, <<LF>>, <<DOLLAR, 49, CR, LF, 97, CR, LF>> }

\* Streams that are an encoding followed by trailing bytes
EncodedInputs ==
    { [bytes |-> Enc(v, n) \o x, value |-> v, enclen |-> Len(Enc(v, n))] :
        v \in HarnessValues, n \in BOOLEAN, x \in Trailing }

HeaderBodies ==
    SeqsUpTo({MINUS, 49, 50, 57}, MaxDigits)

RawTails ==
    { <<>>, CRLF, <<97, CR, LF>>, <<97, 98, CR, LF>> }

\* Streams that start like a header: a prefix byte, sign and digits, a
\* terminator (or none), a tail
RawInputs ==
    { [bytes |-> <<p>> \o b \o t \o x, value |-> NoValue, enclen |-> 0] :
        p \in {COLON, PLUS, DOLLAR, STAR, 97}, b \in HeaderBodies,
        t \in {<<>>, <<CR>>, CRLF}, x \in RawTails }

HarnessInputs ==
    EncodedInputs \cup RawInputs

ServerIdle ==
    /\ db = <<>>
    /\ mutex = 0
    /\ now = 0
    /\ pc = <<>>
    /\ buffer = <<>>
    /\ net = <<>>
    /\ out = <<>>
    /\ cmd = <<>>
    /\ adv = <<>>
    /\ resp = <<>>
    /\ hit = <<>>
    /\ vals = <<>>
    /\ sets = <<>>
    /\ gets = <<>>
    /\ sent = 0

ParseInit ==
    /\ overflow_checks \in BOOLEAN
    /\ \E inp \in HarnessInputs :
        /\ pin = inp.bytes
        /\ pval = inp.value
        /\ penc = inp.enclen
    /\ pfed = 0
    /\ pres = NoResult
    /\ pfirst = NoResult
    /\ pat = 0
    /\ cval = NoValue
    /\ cres = NoCmdResult
    /\ ServerIdle

\* The bytes received so far
pbuf ==
    SubSeq(pin, 1, pfed)

\* socket.read_buf appends the next n >= 1 bytes of the stream
Feed ==
    /\ pfed < Len(pin)
    /\ \E n \in (pfed + 1)..Len(pin) : pfed' = n
    /\ pres' = NoResult
    /\ UNCHANGED <<overflow_checks, pin, pfirst, pat, pval, penc, cval, cres, serverVars>>

\* RespValue::parse(&buffer)
Decode ==
    /\ pres = NoResult
    /\ pres' = parse(pbuf)
    /\ pfirst' = IF pfirst = NoResult /\ pres'.tag # "Incomplete" THEN pres' ELSE pfirst
    /\ pat' = IF pfirst = NoResult /\ pres'.tag # "Incomplete" THEN pfed ELSE pat
    /\ UNCHANGED <<overflow_checks, pin, pfed, pval, penc, cval, cres, serverVars>>

ParseNext ==
    \/ Feed
    \/ Decode

ParseSpec ==
    ParseInit /\ [][ParseNext]_vars

(***************************************************************************)
(* Properties of the decoder, under ParseSpec                              *)
(***************************************************************************)
\* pin starts with an encoding and the buffer has been decoded
DecodedEncoding ==
    pval # NoValue /\ pres # NoResult

\* C4: decoding a proper prefix of a valid encoding returns Incomplete, and
\* decoding the whole encoding, fed in any chunks, returns the encoded value
\* with the length of the encoding as the consumed count.
C4_PrefixIncomplete ==
    DecodedEncoding =>
        /\ pfed < penc => pres = Incomplete
        /\ pfed = penc => pres = Ok(pval, penc)

\* C4 witness: a bulk string whose payload is CR LF, decoded when the payload
\* has arrived and its terminator has not.
C4_Witness ==
    /\ pval = BulkString(CRLF)
    /\ pfed = penc - 2
    /\ pres = Incomplete

\* C5: when the buffer holds a valid encoding followed by any trailing bytes,
\* decode returns the encoded value and a consumed count equal to the length
\* of the encoding.
C5_ConsumedExact ==
    DecodedEncoding /\ pfed >= penc => pres = Ok(pval, penc)

\* C5 witness: an array holding an array, decoded with trailing bytes behind it
C5_Witness ==
    /\ pval = Array(<<Array(<<SimpleString(<<79>>)>>), BulkString(<<80>>)>>)
    /\ pfed > penc
    /\ pres = Ok(pval, penc)

\* C6: once decode has returned a value, it returns the same value and
\* consumed count after the buffer has grown; once it has returned Malformed,
\* it returns Malformed after the buffer has grown.
C6_StableUnderGrowth ==
    pres # NoResult /\ pfed > pat =>
        /\ pfirst.tag = "Ok" => pres = pfirst
        /\ pfirst.tag = "InvalidFormat" => pres.tag = "InvalidFormat"

\* C6 witness: a buffer decoded as Malformed, decoded again after it has grown
C6_Witness ==
    /\ pfirst.tag = "InvalidFormat"
    /\ pfed > pat
    /\ pres.tag = "InvalidFormat"

\* The headers that declare a negative length other than -1
NegativeHeaders ==
    { <<p, MINUS>> \o d \o CRLF :
        p \in {DOLLAR, STAR}, d \in (SeqsUpTo({49, 50, 57}, MaxDigits) \ {<<>>, <<49>>}) }

\* C7: a buffer that starts with a bulk-string or array header declaring a
\* negative length other than -1 is decoded as Malformed.
C7_NegativeLengthMalformed ==
    pres # NoResult /\ (\E h \in NegativeHeaders :
                            pfed >= Len(h) /\ SubSeq(pin, 1, Len(h)) = h)
        => pres.tag = "InvalidFormat"

RECURSIVE SimpleStringsClean(_)
\* No simple string inside v, v included, holds a CR or an LF
SimpleStringsClean(v) ==
    IF v.t = "SimpleString" THEN \A i \in 1..Len(v.b) : v.b[i] \notin {13, 10}
    ELSE IF v.t = "Array" THEN \A k \in 1..Len(v.a) : SimpleStringsClean(v.a[k])
    ELSE TRUE

\* C17: a value returned by decode holds no simple string with a CR byte or
\* an LF byte in its text.
C17_SimpleStringNoCrLf ==
    pres.tag = "Ok" => SimpleStringsClean(pres.value)

(***************************************************************************)
(* src/main.rs and the execute methods of src/commands.rs: one task per    *)
(* connection, the store shared behind one Mutex.                          *)
(***************************************************************************)
Conns ==
    {"c1", "c2"}

NoOwner ==
    "none"

MaxTime ==
    1

\* A SET as executed: the command's fields, the Instant::now() it read and
\* its rank among the SETs executed (0: none)
NoSet ==
    [seq |-> 0, key |-> <<>>, value |-> <<>>, has_px |-> FALSE, px |-> 0, t0 |-> 0]

\* A GET as executed: its key, the Instant::now() it read, the latest SET on
\* its map key when it looked up, its reply, and whether the map holds the
\* key when it returns
NoGet ==
    [done |-> FALSE, key |-> <<>>, t |-> 0, set |-> NoSet, reply |-> <<>>, present |-> FALSE]

NoWrites ==
    [n |-> 0, last |-> <<>>]

NoValues ==
    [n |-> 0, last |-> NoValue]

\* The number of SETs executed so far
SetCount ==
    LET ranks == {sets[k].seq : k \in DOMAIN sets}
    IN  IF ranks = {} THEN 0 ELSE CHOOSE r \in ranks : \A q \in ranks : q <= r

EmptyMap ==
    [k \in {} |-> 0]

\* The state handle_connection starts from, for the connections in `live`
ServerInit(live) ==
    /\ db = EmptyMap
    /\ mutex = NoOwner
    /\ now = 0
    /\ pc = [c \in Conns |-> IF c \in live THEN "parse" ELSE "unconnected"]
    /\ buffer = [c \in Conns |-> <<>>]
    /\ out = [c \in Conns |-> NoWrites]
    /\ cmd = [c \in Conns |-> NoCmd]
    /\ adv = [c \in Conns |-> 0]
    /\ resp = [c \in Conns |-> <<>>]
    /\ hit = [c \in Conns |-> "none"]
    /\ vals = [c \in Conns |-> NoValues]
    /\ sets = EmptyMap
    /\ gets = [c \in Conns |-> NoGet]
    /\ sent = 0

HarnessIdle ==
    /\ pin = <<>>
    /\ pfed = 0
    /\ pres = NoResult
    /\ pfirst = NoResult
    /\ pat = 0
    /\ pval = NoValue
    /\ penc = 0
    /\ cval = NoValue
    /\ cres = NoCmdResult

\* RespValue::parse(&buffer) at the top of the inner loop (line 27)
Decoded(c) ==
    parse(buffer[c])

\* Command::from_resp(value) (line 29)
Parsed(c) ==
    from_resp(Decoded(c).value)

\* buffer.advance(n)
Advance(c, n) ==
    buffer' = [buffer EXCEPT ![c] = SliceFrom(buffer[c], n)]

\* Err(ParserError::Incomplete) => break (line 38)
DecodeIncomplete(c) ==
    /\ pc[c] = "parse"
    /\ Decoded(c).tag = "Incomplete"
    /\ pc' = [pc EXCEPT ![c] = "read"]
    /\ UNCHANGED <<overflow_checks, db, mutex, now, buffer, net, out, cmd, adv, resp, hit,
                   vals, sets, gets, sent, harnessVars>>

\* Variant of DecodeMalformed: the error line is written, the buffer is
\* dropped and the connection goes back to reading
DecodeMalformed_resumes(c) ==
    /\ pc[c] = "parse"
    /\ Decoded(c).tag = "InvalidFormat"
    /\ out' = [out EXCEPT ![c] = [n |-> @.n + 1, last |-> ErrorReply(Decoded(c).msg)]]
    /\ buffer' = [buffer EXCEPT ![c] = <<>>]
    /\ pc' = [pc EXCEPT ![c] = "read"]
    /\ UNCHANGED <<overflow_checks, db, mutex, now, net, cmd, adv, resp, hit,
                   vals, sets, gets, sent, harnessVars>>

\* Err(ParserError::InvalidFormat(e)): one write_all whose result is
\* dropped, then return (lines 39-43)
DecodeMalformed(c) ==
    /\ pc[c] = "parse"
    /\ Decoded(c).tag = "InvalidFormat"
    /\ \E written \in BOOLEAN :
        /\ out' = [out EXCEPT ![c] = IF written
                                      THEN [n |-> @.n + 1, last |-> ErrorReply(Decoded(c).msg)]
                                      ELSE @]
        /\ pc' = [pc EXCEPT ![c] = IF written THEN "closed_malformed"
                                    ELSE "closed_write_error"]
    /\ UNCHANGED <<overflow_checks, db, mutex, now, buffer, net, cmd, adv, resp, hit,
                   vals, sets, gets, sent, harnessVars>>

\* parse panics: the task of this connection unwinds and ends
DecodePanic(c) ==
    /\ pc[c] = "parse"
    /\ Decoded(c).tag = "Panic"
    /\ pc' = [pc EXCEPT ![c] = "panicked"]
    /\ UNCHANGED <<overflow_checks, db, mutex, now, buffer, net, out, cmd, adv, resp, hit,
                   vals, sets, gets, sent, harnessVars>>

\* Variant of DecodeReject: the whole buffer is dropped with the rejected
\* value
DecodeReject_drops(c) ==
    /\ pc[c] = "parse"
    /\ Decoded(c).tag = "Ok"
    /\ ~Parsed(c).ok
    /\ resp' = [resp EXCEPT ![c] = ErrorReply(Parsed(c).err.text)]
    /\ buffer' = [buffer EXCEPT ![c] = <<>>]
    /\ vals' = [vals EXCEPT ![c] = [n |-> @.n + 1, last |-> Decoded(c).value]]
    /\ pc' = [pc EXCEPT ![c] = "write"]
    /\ UNCHANGED <<overflow_checks, db, mutex, now, net, out, cmd, adv, hit,
                   sets, gets, sent, harnessVars>>

\* Ok((value, consumed)) and from_resp fails: the response is the error
\* line (lines 28-37)
DecodeReject(c) ==
    /\ pc[c] = "parse"
    /\ Decoded(c).tag = "Ok"
    /\ ~Parsed(c).ok
    /\ resp' = [resp EXCEPT ![c] = ErrorReply(Parsed(c).err.text)]
    /\ Advance(c, Decoded(c).consumed)
    /\ vals' = [vals EXCEPT ![c] = [n |-> @.n + 1, last |-> Decoded(c).value]]
    /\ pc' = [pc EXCEPT ![c] = "write"]
    /\ UNCHANGED <<overflow_checks, db, mutex, now, net, out, cmd, adv, hit,
                   sets, gets, sent, harnessVars>>

\* Ok((value, consumed)) and the command is a Ping or an Echo, which
\* execute without the store
DecodeReply(c) ==
    /\ pc[c] = "parse"
    /\ Decoded(c).tag = "Ok"
    /\ Parsed(c).ok
    /\ Parsed(c).cmd.name \in {"Ping", "Echo"}
    /\ resp' = [resp EXCEPT ![c] = IF Parsed(c).cmd.name = "Ping"
                                    THEN PingExecute(Parsed(c).cmd)
                                    ELSE EchoExecute(Parsed(c).cmd)]
    /\ Advance(c, Decoded(c).consumed)
    /\ vals' = [vals EXCEPT ![c] = [n |-> @.n + 1, last |-> Decoded(c).value]]
    /\ pc' = [pc EXCEPT ![c] = "write"]
    /\ UNCHANGED <<overflow_checks, db, mutex, now, net, out, cmd, adv, hit,
                   sets, gets, sent, harnessVars>>

\* Ok((value, consumed)) and the command is a Get or a Set: execute starts
\* by waiting for the lock
DecodeStore(c) ==
    /\ pc[c] = "parse"
    /\ Decoded(c).tag = "Ok"
    /\ Parsed(c).ok
    /\ Parsed(c).cmd.name \in {"Get", "Set"}
    /\ cmd' = [cmd EXCEPT ![c] = Parsed(c).cmd]
    /\ adv' = [adv EXCEPT ![c] = Decoded(c).consumed]
    /\ vals' = [vals EXCEPT ![c] = [n |-> @.n + 1, last |-> Decoded(c).value]]
    /\ pc' = [pc EXCEPT ![c] = "lock"]
    /\ UNCHANGED <<overflow_checks, db, mutex, now, buffer, net, out, resp, hit,
                   sets, gets, sent, harnessVars>>

\* Mutex::lock returns only when no guard is alive
MutexFree ==
    mutex = NoOwner

\* db.lock().unwrap() (lines 137 and 210)
Lock(c) ==
    /\ pc[c] = "lock"
    /\ MutexFree
    /\ mutex' = c
    /\ pc' = [pc EXCEPT ![c] = IF cmd[c].name = "Get" THEN "get_lookup" ELSE "set_insert"]
    /\ UNCHANGED <<overflow_checks, db, now, buffer, net, out, cmd, adv, resp, hit,
                   vals, sets, gets, sent, harnessVars>>

\* Get::execute, lines 138-142: the lookup and the comparison with
\* Instant::now()
GetLookup(c) ==
    LET key_string == KeyString(cmd[c].key)
    IN  /\ pc[c] = "get_lookup"
        /\ hit' = [hit EXCEPT ![c] =
                    IF key_string \notin DOMAIN db THEN "absent"
                    ELSE IF Expired(db[key_string], now) THEN "expired"
                    ELSE "live"]
        /\ gets' = [gets EXCEPT ![c] =
                    [NoGet EXCEPT !.key = cmd[c].key, !.t = now,
                                  !.set = IF key_string \in DOMAIN sets
                                          THEN sets[key_string] ELSE NoSet]]
        /\ pc' = [pc EXCEPT ![c] = "get_finish"]
        /\ UNCHANGED <<overflow_checks, db, mutex, now, buffer, net, out, cmd, adv, resp,
                       vals, sets, sent, harnessVars>>

\* Get::execute, lines 143-152: remove and miss, or the value as a bulk
\* string, or miss; the guard is dropped on return, then buffer.advance
GetFinish(c) ==
    LET key_string == KeyString(cmd[c].key)
        reply == IF hit[c] = "live" THEN GetHitReply(db[key_string].value) ELSE NULL_BULK
    IN  /\ pc[c] = "get_finish"
        /\ db' = IF hit[c] = "expired" THEN MapRemove(db, key_string) ELSE db
        /\ resp' = [resp EXCEPT ![c] = reply]
        /\ gets' = [gets EXCEPT ![c] =
                    [@ EXCEPT !.done = TRUE, !.reply = reply,
                              !.present = key_string \in DOMAIN db']]
        /\ mutex' = NoOwner
        /\ Advance(c, adv[c])
        /\ hit' = [hit EXCEPT ![c] = "none"]
        /\ cmd' = [cmd EXCEPT ![c] = NoCmd]
        /\ adv' = [adv EXCEPT ![c] = 0]
        /\ pc' = [pc EXCEPT ![c] = "write"]
        /\ UNCHANGED <<overflow_checks, now, net, out, vals, sets, sent, harnessVars>>

\* Variant of SetExec: the insert drops every other entry of the map
SetExec_clears(c) ==
    /\ pc[c] = "set_insert"
    /\ db' = MapInsert(EmptyMap, KeyString(cmd[c].key), DbValue(cmd[c], now))
    /\ resp' = [resp EXCEPT ![c] = OK]
    /\ sets' = MapInsert(sets, KeyString(cmd[c].key),
                          [seq |-> SetCount + 1, key |-> cmd[c].key, value |-> cmd[c].value,
                           has_px |-> cmd[c].has_px, px |-> cmd[c].px, t0 |-> now])
    /\ mutex' = NoOwner
    /\ Advance(c, adv[c])
    /\ cmd' = [cmd EXCEPT ![c] = NoCmd]
    /\ adv' = [adv EXCEPT ![c] = 0]
    /\ pc' = [pc EXCEPT ![c] = "write"]
    /\ UNCHANGED <<overflow_checks, now, net, out, hit, vals, gets, sent, harnessVars>>

\* Set::execute, lines 211-219, the guard dropped on return, then
\* buffer.advance
SetExec(c) ==
    /\ pc[c] = "set_insert"
    /\ db' = MapInsert(db, KeyString(cmd[c].key), DbValue(cmd[c], now))
    /\ resp' = [resp EXCEPT ![c] = OK]
    /\ sets' = MapInsert(sets, KeyString(cmd[c].key),
                          [seq |-> SetCount + 1, key |-> cmd[c].key, value |-> cmd[c].value,
                           has_px |-> cmd[c].has_px, px |-> cmd[c].px, t0 |-> now])
    /\ mutex' = NoOwner
    /\ Advance(c, adv[c])
    /\ cmd' = [cmd EXCEPT ![c] = NoCmd]
    /\ adv' = [adv EXCEPT ![c] = 0]
    /\ pc' = [pc EXCEPT ![c] = "write"]
    /\ UNCHANGED <<overflow_checks, now, net, out, hit, vals, gets, sent, harnessVars>>

\* socket.write_all(&response) succeeds (line 46)
Write(c) ==
    /\ pc[c] = "write"
    /\ out' = [out EXCEPT ![c] = [n |-> @.n + 1, last |-> resp[c]]]
    /\ resp' = [resp EXCEPT ![c] = <<>>]
    /\ gets' = [gets EXCEPT ![c] = NoGet]
    /\ pc' = [pc EXCEPT ![c] = "parse"]
    /\ UNCHANGED <<overflow_checks, db, mutex, now, buffer, net, cmd, adv, hit,
                   vals, sets, sent, harnessVars>>

\* socket.write_all(&response) fails: return (lines 46-49)
WriteFail(c) ==
    /\ pc[c] = "write"
    /\ resp' = [resp EXCEPT ![c] = <<>>]
    /\ gets' = [gets EXCEPT ![c] = NoGet]
    /\ pc' = [pc EXCEPT ![c] = "closed_write_error"]
    /\ UNCHANGED <<overflow_checks, db, mutex, now, buffer, net, out, cmd, adv, hit,
                   vals, sets, sent, harnessVars>>

\* Variant of Receive: the bytes read replace the buffer
Receive_overwrites(c, bytes) ==
    /\ pc[c] = "read"
    /\ buffer' = [buffer EXCEPT ![c] = bytes]
    /\ pc' = [pc EXCEPT ![c] = "parse"]

\* socket.read_buf(&mut buffer) returns Ok(n), n > 0: the bytes are appended
Receive(c, bytes) ==
    /\ pc[c] = "read"
    /\ buffer' = [buffer EXCEPT ![c] = @ \o bytes]
    /\ pc' = [pc EXCEPT ![c] = "parse"]

\* read_buf returns Ok(0) or Err: return (lines 53-63)
ReadEof(c) ==
    /\ pc[c] = "read"
    /\ net[c] = <<>>
    /\ pc' = [pc EXCEPT ![c] = "closed_eof"]
    /\ UNCHANGED <<overflow_checks, db, mutex, now, buffer, net, out, cmd, adv, resp, hit,
                   vals, sets, gets, sent, harnessVars>>

\* Variant of Tick: the entries whose deadline has passed are swept
Tick_sweeps ==
    /\ now < MaxTime
    /\ now' = now + 1
    /\ db' = [k \in {x \in DOMAIN db : ~Expired(db[x], now + 1)} |-> db[k]]
    /\ UNCHANGED <<overflow_checks, mutex, pc, buffer, net, out, cmd, adv, resp, hit,
                   vals, sets, gets, sent, harnessVars>>

\* Instant::now() is monotonic
Tick ==
    /\ now < MaxTime
    /\ now' = now + 1
    /\ UNCHANGED <<overflow_checks, db, mutex, pc, buffer, net, out, cmd, adv, resp, hit,
                   vals, sets, gets, sent, harnessVars>>

(***************************************************************************)
(* Spec: two connections whose peers send whole SET and GET requests on    *)
(* one key, each request arriving in one read; the peers keep their        *)
(* connections open and take every reply.                                  *)
(***************************************************************************)
MaxRequests ==
    3

\* *<n>\r\n$<len>\r\n<part>\r\n... : a command as a client writes it
Request(parts) ==
    Enc(Array([k \in 1..Len(parts) |-> BulkString(parts[k])]), FALSE)

\* What each peer may send, all on the map key "K":
\*   c1: SET k b | SET K a px 0 | GET k
\*   c2: SET k <ff> PX 1 | set K <ff> | get K
StoreRequests(c) ==
    IF c = "c1" THEN
        { Request(<<VERB_SET, <<107>>, <<98>>>>),
          Request(<<VERB_SET, <<75>>, <<97>>, <<112, 120>>, <<48>>>>),
          Request(<<VERB_GET, <<107>>>>) }
    ELSE
        { Request(<<VERB_SET, <<107>>, <<255>>, OPT_PX, <<49>>>>),
          Request(<<<<115, 101, 116>>, <<75>>, <<255>>>>),
          Request(<<<<103, 101, 116>>, <<75>>>>) }

Init ==
    /\ overflow_checks \in BOOLEAN
    /\ ServerInit(Conns)
    /\ net = [c \in Conns |-> <<>>]
    /\ HarnessIdle

\* read_buf returns a whole request of the peer
ReadRequest(c) ==
    /\ sent < MaxRequests
    /\ \E r \in StoreRequests(c) : Receive(c, r)
    /\ sent' = sent + 1
    /\ UNCHANGED <<overflow_checks, db, mutex, now, net, out, cmd, adv, resp, hit,
                   vals, sets, gets, harnessVars>>

Next ==
    \/ \E c \in Conns : ReadRequest(c)
    \/ \E c \in Conns : DecodeIncomplete(c)
    \/ \E c \in Conns : DecodeStore(c)
    \/ \E c \in Conns : Lock(c)
    \/ \E c \in Conns : GetLookup(c)
    \/ \E c \in Conns : GetFinish(c)
    \/ \E c \in Conns : SetExec(c)
    \/ \E c \in Conns : Write(c)
    \/ Tick

Spec ==
    Init /\ [][Next]_vars

(***************************************************************************)
(* Properties of the store, under Spec                                     *)
(***************************************************************************)
\* Two keys that differ only in the case of their ASCII letters
CaseEq(k1, k2) ==
    /\ Len(k1) = Len(k2)
    /\ \A i \in 1..Len(k1) :
        \/ k1[i] = k2[i]
        \/ k1[i] \in 65..90 /\ k2[i] = k1[i] + 32
        \/ k1[i] \in 97..122 /\ k2[i] = k1[i] - 32

\* The bulk string that carries the bytes v
BulkReply(v) ==
    <<DOLLAR>> \o Dec(Len(v)) \o CRLF \o v \o CRLF

\* The GETs that have executed and whose reply is not written yet, with the
\* latest SET executed on a case variant of their key
GetsDone ==
    {c \in Conns : gets[c].done /\ gets[c].set.seq > 0
                    /\ CaseEq(gets[c].key, gets[c].set.key)}

\* C1: a GET whose latest SET on a case variant of its key had no PX replies
\* with the value of that SET as a bulk string, and the store holds one entry
\* for all the case variants of a key.
C1_GetReturnsLastSet ==
    /\ \A c \in GetsDone :
        ~gets[c].set.has_px => gets[c].reply = BulkReply(gets[c].set.value)
    /\ \A k1, k2 \in DOMAIN db : CaseEq(k1, k2) => k1 = k2

\* C2: a GET executed at time t after SET k v PX p executed at time t0
\* replies with v when t < t0 + p; when t >= t0 + p it replies $-1 and the
\* key is absent from the store when it returns.
C2_ExpiryDeadline ==
    \A c \in GetsDone :
        gets[c].set.has_px =>
            /\ gets[c].t < gets[c].set.t0 + gets[c].set.px
                => gets[c].reply = BulkReply(gets[c].set.value)
            /\ gets[c].t >= gets[c].set.t0 + gets[c].set.px
                => gets[c].reply = NULL_BULK /\ ~gets[c].present

\* C3: under every interleaving, a GET that hits replies with the whole
\* value of the latest SET on its key in lock order, that SET's own expiry
\* has not passed, and each store entry is the value and expiry of one SET.
C3_AtomicSetGet ==
    /\ \A c \in Conns :
        gets[c].done /\ gets[c].reply # NULL_BULK =>
            /\ gets[c].set.seq > 0
            /\ gets[c].reply = BulkReply(gets[c].set.value)
            /\ gets[c].set.has_px => gets[c].t < gets[c].set.t0 + gets[c].set.px
    /\ \A k \in DOMAIN db :
        /\ k \in DOMAIN sets
        /\ db[k].value = sets[k].value
        /\ db[k].has_expiry = sets[k].has_px
        /\ db[k].has_expiry => db[k].expires_at = sets[k].t0 + sets[k].px

\* C18: a key leaves the store only in the step of a GET on a case variant
\* of that key, taken when the entry has a deadline and the time is at or
\* after it; a step in which time passes leaves the store as it is.
C18_OnlyExpiredGetRemoves ==
    [][/\ now' # now => db' = db
       /\ \A k \in DOMAIN db :
            k \notin DOMAIN db' =>
                \E c \in Conns :
                    /\ pc[c] = "get_finish" /\ pc'[c] = "write"
                    /\ cmd[c].name = "Get" /\ CaseEq(k, cmd[c].key)
                    /\ db[k].has_expiry /\ now >= db[k].expires_at
      ]_vars

\* C18 witness: a GET has found the entry of its key past its deadline and
\* has removed it, while the other connection waits for the lock with a SET
\* on the same key
C18_Witness ==
    /\ gets["c1"].done
    /\ gets["c1"].set.has_px
    /\ gets["c1"].t >= gets["c1"].set.t0 + gets["c1"].set.px
    /\ ~gets["c1"].present
    /\ DOMAIN db = {}
    /\ pc["c2"] = "lock" /\ cmd["c2"].name = "Set"

\* C20: the insert of a SET leaves under its normalized key exactly the
\* value and the expiry of that SET (none without PX, now + px with PX),
\* whatever entry was there before, and its reply is +OK CR LF; and a GET
\* whose latest SET had no PX replies, at any time, with the value of that
\* SET as a bulk string.
C20_SetReplacesEntry ==
    /\ [][\A c \in Conns :
            pc[c] = "set_insert" /\ pc'[c] = "write" =>
                LET own == KeyString(cmd[c].key)
                IN  /\ own \in DOMAIN db'
                    /\ db'[own].value = cmd[c].value
                    /\ db'[own].has_expiry = cmd[c].has_px
                    /\ cmd[c].has_px => db'[own].expires_at = now + cmd[c].px
                    /\ resp'[c] = <<PLUS, 79, 75, CR, LF>>
         ]_vars
    /\ [](\A c \in GetsDone :
            ~gets[c].set.has_px /\ gets[c].t >= 0 =>
                gets[c].reply = BulkReply(gets[c].set.value))

\* C12: a GET that hits replies $<n> CR LF <value> CR LF, where <value> is
\* byte for byte the value of the latest SET on its key and <n> the number
\* of its bytes, whether or not the value is valid UTF-8.
C12_GetByteForByte ==
    \A c \in GetsDone :
        LET set == gets[c].set
            v == set.value
        IN  (set.has_px => gets[c].t < set.t0 + set.px) =>
                gets[c].reply = <<DOLLAR>> \o Dec(Len(v)) \o CRLF \o v \o CRLF

(***************************************************************************)
(* DriverSpec: one connection whose peer writes a stream of requests,      *)
(* well-formed or not, that read_buf delivers in chunks of any size.       *)
(***************************************************************************)
MaxPipeline ==
    2

\* The first request of a stream
FirstRequests ==
    { \* PING | ping hi | PING <ff> | PING hi hi | PING :1
      Request(<<VERB_PING>>),
      Request(<<<<112, 105, 110, 103>>, <<104, 105>>>>),
      Request(<<VERB_PING, <<255>>>>),
      Request(<<VERB_PING, <<104, 105>>, <<104, 105>>>>),
      Enc(Array(<<BulkString(VERB_PING), Integer(1)>>), FALSE),
      \* ECHO hi | ECHO <c3> | ECHO
      Request(<<VERB_ECHO, <<104, 105>>>>),
      Request(<<VERB_ECHO, <<195>>>>),
      Request(<<VERB_ECHO>>),
      \* SET k v | SET k <ff> PX 1 | GET k | GET | GET k k
      Request(<<VERB_SET, <<107>>, <<118>>>>),
      Request(<<VERB_SET, <<107>>, <<255>>, OPT_PX, <<49>>>>),
      Request(<<VERB_GET, <<107>>>>),
      Request(<<VERB_GET>>),
      Request(<<VERB_GET, <<107>>, <<107>>>>),
      \* SET k v XX | SET k v PX x | SET k v PX 1 PX 1 | SET k v PX | SET k v PX <ff>
      Request(<<VERB_SET, <<107>>, <<118>>, <<88, 88>>>>),
      Request(<<VERB_SET, <<107>>, <<118>>, OPT_PX, <<120>>>>),
      Request(<<VERB_SET, <<107>>, <<118>>, OPT_PX, <<49>>, OPT_PX, <<49>>>>),
      Request(<<VERB_SET, <<107>>, <<118>>, OPT_PX>>),
      Request(<<VERB_SET, <<107>>, <<118>>, OPT_PX, <<255>>>>),
      \* a command named "a\nb", a command named <ff>
      Request(<<<<97, LF, 98>>>>),
      Request(<<<<255>>>>),
      \* :1 | $-1 | *-1 | *0 | *1 :1 | +OK
      Enc(Integer(1), FALSE),
      Enc(Null, FALSE),
      Enc(Null, TRUE),
      Enc(Array(<<>>), FALSE),
      Enc(Array(<<Integer(1)>>), FALSE),
      Enc(SimpleString(<<79, 75>>), FALSE),
      \* ?\r\n | $1\r\nab\r\n | :x\r\n | $-2\r\n | *-2\r\n | $-3\r\n | $-9\r\n
      <<63>> \o CRLF,
      <<DOLLAR, 49>> \o CRLF \o <<97, 98>> \o CRLF,
      <<COLON, 120>> \o CRLF,
      <<DOLLAR, MINUS, 50>> \o CRLF,
      <<STAR, MINUS, 50>> \o CRLF,
      <<DOLLAR, MINUS, 51>> \o CRLF,
      <<DOLLAR, MINUS, 57>> \o CRLF }

\* The requests that may follow it: PING | GET k | *0 | ?\r\n
FollowRequests ==
    { Request(<<VERB_PING>>),
      Request(<<VERB_GET, <<107>>>>),
      Enc(Array(<<>>), FALSE),
      <<63>> \o CRLF }

\* Streams that fill the store with two entries, one of them already past
\* its deadline, before a third request:
\*   SET j v, SET k <ff> PX 0, then
\*   GET k | GET J | SET K w | SET j w PX 1 | PING | ECHO hi | GET | ?\r\n
StoreStreams ==
    { Request(<<VERB_SET, <<106>>, <<118>>>>)
        \o Request(<<VERB_SET, <<107>>, <<255>>, OPT_PX, <<48>>>>)
        \o third :
        third \in { Request(<<VERB_GET, <<107>>>>),
                    Request(<<VERB_GET, <<74>>>>),
                    Request(<<VERB_SET, <<75>>, <<119>>>>),
                    Request(<<VERB_SET, <<106>>, <<119>>, OPT_PX, <<49>>>>),
                    Request(<<VERB_PING>>),
                    Request(<<VERB_ECHO, <<104, 105>>>>),
                    Request(<<VERB_GET>>),
                    <<63>> \o CRLF } }

DriverStreams ==
    {<<>>} \cup StoreStreams
           \cup { r \o Flatten(f) :
                    r \in FirstRequests, f \in SeqsUpTo(FollowRequests, MaxPipeline - 1) }

DriverInit ==
    /\ overflow_checks \in BOOLEAN
    /\ ServerInit({"c1"})
    /\ \E stream \in DriverStreams : net = [c \in Conns |-> IF c = "c1" THEN stream ELSE <<>>]
    /\ HarnessIdle

\* read_buf returns the next n >= 1 bytes of the stream
ReadStream(c) ==
    /\ net[c] # <<>>
    /\ \E n \in 1..Len(net[c]) :
        /\ Receive(c, SubSeq(net[c], 1, n))
        /\ net' = [net EXCEPT ![c] = SliceFrom(net[c], n)]
    /\ UNCHANGED <<overflow_checks, db, mutex, now, out, cmd, adv, resp, hit,
                   vals, sets, gets, sent, harnessVars>>

DriverNext ==
    \/ \E c \in Conns : ReadStream(c)
    \/ \E c \in Conns : ReadEof(c)
    \/ \E c \in Conns : DecodeIncomplete(c)
    \/ \E c \in Conns : DecodeMalformed(c)
    \/ \E c \in Conns : DecodePanic(c)
    \/ \E c \in Conns : DecodeReject(c)
    \/ \E c \in Conns : DecodeReply(c)
    \/ \E c \in Conns : DecodeStore(c)
    \/ \E c \in Conns : Lock(c)
    \/ \E c \in Conns : GetLookup(c)
    \/ \E c \in Conns : GetFinish(c)
    \/ \E c \in Conns : SetExec(c)
    \/ \E c \in Conns : Write(c)
    \/ \E c \in Conns : WriteFail(c)

DriverSpec ==
    DriverInit /\ [][DriverNext]_vars

(***************************************************************************)
(* Properties of the connection driver, under DriverSpec                   *)
(***************************************************************************)
\* One line: "-ERR ", a text without CR or LF, CR LF
IsErrLine(r) ==
    /\ Len(r) >= 7
    /\ SubSeq(r, 1, 5) = <<45, 69, 82, 82, 32>>
    /\ SubSeq(r, Len(r) - 1, Len(r)) = <<13, 10>>
    /\ \A i \in 1..(Len(r) - 2) : r[i] \notin {13, 10}

\* C8: the reply awaiting its write for a value that command parsing
\* rejected is one line: it starts with "-ERR ", ends with CR LF and holds
\* no other CR or LF.
C8_RejectReplyOneLine ==
    \A c \in Conns :
        pc[c] = "write" /\ ~from_resp(vals[c].last).ok => IsErrLine(resp[c])

Closed ==
    {"closed_malformed", "closed_write_error", "closed_eof", "panicked"}

\* The step of connection c that produces a response consumes from the
\* buffer exactly the encoding of the latest decoded value
ConsumesLatest(c) ==
    \E n \in BOOLEAN :
        LET e == Enc(vals'[c].last, n)
        IN  /\ Len(buffer[c]) >= Len(e)
            /\ SubSeq(buffer[c], 1, Len(e)) = e
            /\ buffer'[c] = SliceFrom(buffer[c], Len(e))

\* C9: on each connection a value is decoded only when every earlier value
\* has its reply written, the reply written next is the response to the
\* latest decoded value, the response to a value, rejected or not, takes
\* exactly that value out of the buffer and is followed by its write and
\* the next decode, and the connection waits for input only when the buffer
\* holds no complete value.
C9_OneReplyPerValueInOrder ==
    [][\A c \in Conns :
        /\ vals'[c] # vals[c] =>
            /\ vals'[c].n = vals[c].n + 1
            /\ out[c].n = vals[c].n
            /\ out'[c] = out[c]
        /\ out'[c] # out[c] /\ pc'[c] # "closed_malformed" =>
            /\ out'[c].n = out[c].n + 1
            /\ vals[c].n = out'[c].n
            /\ vals'[c] = vals[c]
            /\ out'[c].last = resp[c]
            /\ pc'[c] = "parse"
        /\ pc[c] # "write" /\ pc'[c] = "write" =>
            /\ ConsumesLatest(c)
            /\ resp'[c] # <<>>
        /\ pc[c] = "write" /\ pc'[c] # "write" =>
            pc'[c] \in {"parse", "closed_write_error"}
        /\ pc'[c] = "read" => parse(buffer'[c]).tag = "Incomplete"
        /\ pc'[c] \in {"read", "parse"} => out'[c].n = vals'[c].n
      ]_vars

\* C9 witness: the reply to a rejected value has been written and the
\* response to the value buffered behind it awaits its write
C9_Witness ==
    /\ pc["c1"] = "write"
    /\ out["c1"].n = 1
    /\ IsErrLine(out["c1"].last)
    /\ vals["c1"].n = 2
    /\ resp["c1"] = PONG

\* C10: the step that finds the buffer Malformed ends the connection,
\* writes one -ERR line (or nothing when the socket refuses the write), and
\* is taken when every value decoded before has been executed and replied
\* to; an ended connection decodes nothing, leaves the store alone and
\* writes nothing.
C10_MalformedTerminates ==
    [][\A c \in Conns :
        /\ pc[c] = "parse" /\ parse(buffer[c]).tag = "InvalidFormat" /\ pc'[c] # pc[c] =>
            /\ pc'[c] \in {"closed_malformed", "closed_write_error"}
            /\ pc'[c] = "closed_malformed" =>
                out'[c].n = out[c].n + 1 /\ IsErrLine(out'[c].last)
            /\ pc'[c] = "closed_write_error" => out'[c] = out[c]
            /\ out[c].n = vals[c].n
            /\ cmd[c] = NoCmd /\ mutex # c
            /\ UNCHANGED <<db, vals, buffer>>
        /\ pc[c] \in Closed =>
            /\ pc'[c] = pc[c]
            /\ out'[c] = out[c]
            /\ vals'[c] = vals[c]
            /\ buffer'[c] = buffer[c]
            /\ (\A d \in Conns : pc[d] \in Closed \cup {"unconnected"}) => db' = db
      ]_vars

\* C10 witness: a connection ended by a Malformed decode after one command
\* was replied to, with bytes left in its buffer
C10_Witness ==
    /\ pc["c1"] = "closed_malformed"
    /\ vals["c1"].n = 1
    /\ out["c1"].n = 2
    /\ IsErrLine(out["c1"].last)
    /\ buffer["c1"] # <<>>

\* C13: the response to PING without argument is +PONG CR LF; the response
\* to PING msg and to ECHO msg decodes to BulkString(msg) and the decode
\* consumes the whole response.
C13_PingEchoRoundTrip ==
    \A c \in Conns :
        LET v == vals[c].last
            verb == v.a[1].b
            isPing == CaseEq(verb, <<80, 73, 78, 71>>)
            isEcho == CaseEq(verb, <<69, 67, 72, 79>>)
        IN  pc[c] = "write" /\ v.t = "Array" /\ v.a # <<>> /\ v.a[1].t = "BulkString" =>
                /\ isPing /\ Len(v.a) = 1 => resp[c] = <<43, 80, 79, 78, 71, 13, 10>>
                /\ (isPing \/ isEcho) /\ Len(v.a) = 2 /\ v.a[2].t = "BulkString" =>
                    parse(resp[c]) = Ok(BulkString(v.a[2].b), Len(resp[c]))

\* C11: the receive buffer changes in two ways only: a read appends the
\* bytes it returns, and the step that produces the response to a decoded
\* value, accepted or rejected, removes exactly the encoding of that value
\* from the front; an Incomplete decode leaves the buffer as it is and
\* writes nothing.
C11_BufferAccounting ==
    [][\A c \in Conns :
        /\ pc[c] = "parse" /\ pc'[c] = "read" =>
            buffer'[c] = buffer[c] /\ out'[c] = out[c]
        /\ pc[c] = "read" /\ pc'[c] = "parse" =>
            \E n \in 1..Len(net[c]) :
                /\ buffer'[c] = buffer[c] \o SubSeq(net[c], 1, n)
                /\ net'[c] = SubSeq(net[c], n + 1, Len(net[c]))
        /\ pc[c] # "write" /\ pc'[c] = "write" => ConsumesLatest(c)
        /\ ~(pc[c] = "read" /\ pc'[c] = "parse") /\ ~(pc[c] # "write" /\ pc'[c] = "write")
            => buffer'[c] = buffer[c]
      ]_vars

\* C11 witness: one value has been decoded and taken out of the buffer, the
\* start of the next one stays in the buffer after an Incomplete decode and
\* the rest of it is still to be read
C11_Witness ==
    /\ pc["c1"] = "read"
    /\ vals["c1"].n = 1
    /\ out["c1"].n = 1
    /\ buffer["c1"] # <<>>
    /\ net["c1"] # <<>>

\* The entries of every key but own are the same before and after the step
OthersKept(own) ==
    /\ DOMAIN db' \ {own} = DOMAIN db \ {own}
    /\ \A k \in DOMAIN db \ {own} : db'[k] = db[k]

\* C19: a step that is not the insert of a SET or the finish of a GET (a
\* decode that is Incomplete or Malformed, a rejected value, PING, ECHO,
\* a read, a write) leaves the store unchanged; the insert of a SET leaves
\* every entry but the one of its normalized key unchanged; the finish of
\* a GET leaves every entry but the one of its normalized key unchanged
\* and either keeps that one or removes it, and removes it only when its
\* deadline has passed.
C19_StoreFrame ==
    [][\A c \in Conns :
        pc'[c] # pc[c] =>
            LET own == KeyString(cmd[c].key)
            IN  /\ pc[c] \notin {"set_insert", "get_finish"} => db' = db
                /\ pc[c] = "set_insert" => OthersKept(own) /\ own \in DOMAIN db'
                /\ pc[c] = "get_finish" =>
                        /\ OthersKept(own)
                        /\ own \in DOMAIN db' => own \in DOMAIN db /\ db'[own] = db[own]
                        /\ own \in DOMAIN db \ DOMAIN db' => Expired(db[own], now)
      ]_vars

\* C19 witness: with two entries in the store, a GET has removed the
\* expired one and the other entry is still there
C19_Witness ==
    /\ pc["c1"] = "write"
    /\ vals["c1"].n = 3
    /\ gets["c1"].done /\ ~gets["c1"].present
    /\ DOMAIN db = {KeyString(<<106>>)}
    /\ db[KeyString(<<106>>)].value = <<118>>

(***************************************************************************)
(* CmdSpec: Command::from_resp applied to a decoded value.                 *)
(***************************************************************************)
MaxArgs ==
    5
MaxOtherArgs ==
    2

\* The arguments: x | Px | 1 | :1
ArgElems ==
    { BulkString(<<120>>), BulkString(<<80, 120>>), BulkString(<<49>>), Integer(1) }

\* Further values after PX: -1 | <ff> | +1 | the empty string | 12
PxValues ==
    { BulkString(<<MINUS, 49>>), BulkString(<<255>>), BulkString(<<PLUS, 49>>),
      BulkString(<<>>), BulkString(<<49, 50>>) }

\* First elements that select SET: SET | set
SetFirsts ==
    { BulkString(VERB_SET), BulkString(<<115, 101, 116>>) }

\* The other first elements: PING | Ping | ECHO | echo | GET | gEt | FOO |
\* <ff> | the empty string | :1 | +GET | Null | the array of GET
OtherFirsts ==
    { BulkString(VERB_PING), BulkString(<<80, 105, 110, 103>>),
      BulkString(VERB_ECHO), BulkString(<<101, 99, 104, 111>>),
      BulkString(VERB_GET), BulkString(<<103, 69, 116>>),
      BulkString(<<70, 79, 79>>), BulkString(<<255>>), BulkString(<<>>),
      Integer(1), SimpleString(VERB_GET), Null, Array(<<BulkString(VERB_GET)>>) }

\* What decode can hand to from_resp
CmdValues ==
    { Integer(1), SimpleString(VERB_PING), BulkString(VERB_PING), Null, Array(<<>>) }
        \cup { Array(<<f>> \o args) : f \in SetFirsts, args \in SeqsUpTo(ArgElems, MaxArgs) }
        \cup { Array(<<f>> \o args) : f \in OtherFirsts, args \in SeqsUpTo(ArgElems, MaxOtherArgs) }
        \cup { Array(<<BulkString(VERB_SET), BulkString(<<107>>), e, BulkString(OPT_PX), ms>>) :
                    e \in PxValues, ms \in PxValues }

CmdInit ==
    /\ overflow_checks \in BOOLEAN
    /\ ServerIdle
    /\ pin = <<>>
    /\ pfed = 0
    /\ pres = NoResult
    /\ pfirst = NoResult
    /\ pat = 0
    /\ pval = NoValue
    /\ penc = 0
    /\ cval \in CmdValues
    /\ cres = NoCmdResult

\* Command::from_resp(value)
Interpret ==
    /\ cres = NoCmdResult
    /\ cres' = from_resp(cval)
    /\ UNCHANGED <<overflow_checks, serverVars, pin, pfed, pres, pfirst, pat, pval, penc, cval>>

CmdNext ==
    Interpret

CmdSpec ==
    CmdInit /\ [][CmdNext]_vars

(***************************************************************************)
(* Properties of command parsing, under CmdSpec                            *)
(***************************************************************************)
\* The bytes b spell the verb in upper case, lower case or a mix
Spells(b, verb) ==
    CaseEq(verb, b)

\* The value is an array whose first element is a bulk string
HasName ==
    cval.t = "Array" /\ cval.a # <<>> /\ cval.a[1].t = "BulkString"

IsKnownVerb ==
    \E verb \in {<<80, 73, 78, 71>>, <<69, 67, 72, 79>>, <<71, 69, 84>>, <<83, 69, 84>>} :
        Spells(cval.a[1].b, verb)

Interpreted ==
    cres.err.kind # "Pending"

\* C14: from_resp fails with NotAnArray on a value that is not an array,
\* with EmptyCommand on the empty array, with CommandNotBulkString on an
\* array whose first element is not a bulk string, with UnknownCommand on a
\* name that is not PING, ECHO, GET or SET in any letter case, whatever the
\* arguments; a name that is one of the four in any letter case gets none
\* of these errors.
C14_StructuralOrder ==
    Interpreted =>
        /\ cval.t # "Array" => cres.err.kind = "NotAnArray"
        /\ cval.t = "Array" /\ cval.a = <<>> => cres.err.kind = "EmptyCommand"
        /\ cval.t = "Array" /\ cval.a # <<>> /\ cval.a[1].t # "BulkString"
            => cres.err.kind = "CommandNotBulkString"
        /\ HasName /\ ~IsKnownVerb => cres.err.kind = "UnknownCommand"
        /\ HasName /\ IsKnownVerb
            => cres.err.kind \in {"None", "WrongArgCount", "InvalidArgument"}

\* C14 witness: an unknown name followed by two arguments
C14_Witness ==
    /\ HasName
    /\ cval.a[1].b = <<70, 79, 79>>
    /\ Len(cval.a) = 3
    /\ cres.err.kind = "UnknownCommand"

\* C15: GET with no argument or with two or more arguments fails with
\* WrongArgCount, whatever the arguments are.
C15_GetArgCount ==
    Interpreted /\ HasName /\ Spells(cval.a[1].b, <<71, 69, 84>>) /\ Len(cval.a) # 2
        => cres.err.kind = "WrongArgCount"

\* SET with a bulk-string key and a bulk-string value
IsSetKeyValue ==
    /\ HasName
    /\ Spells(cval.a[1].b, <<83, 69, 84>>)
    /\ Len(cval.a) >= 3
    /\ cval.a[2].t = "BulkString"
    /\ cval.a[3].t = "BulkString"

\* What follows the value
SetOpts ==
    SubSeq(cval.a, 4, Len(cval.a))

\* The token PX in any letter case
IsPx(e) ==
    e.t = "BulkString" /\ Spells(e.b, <<80, 88>>)

\* The digits of a PX value: the value without its plus sign, if it has one
MsDigits(b) ==
    IF b # <<>> /\ b[1] = PLUS THEN Tail(b) ELSE b

\* A non-negative decimal integer: decimal digits, with or without a plus
\* sign in front
IsMs(e) ==
    /\ e.t = "BulkString"
    /\ MsDigits(e.b) # <<>>
    /\ \A i \in 1..Len(MsDigits(e.b)) : MsDigits(e.b)[i] \in 48..57

RECURSIVE Decimal(_)
Decimal(b) ==
    IF b = <<>> THEN 0
    ELSE 10 * Decimal(SubSeq(b, 1, Len(b) - 1)) + (b[Len(b)] - 48)

\* C16: SET key value is accepted with nothing after the value (no expiry)
\* and with exactly one pair PX <non-negative decimal integer> (that
\* expiry; the integer may carry a plus sign, as in str::parse::<u64>); a
\* PX without its value produces no command; everything else
\* after the value (PX more than once, a PX value that is not a non-negative
\* decimal integer or not UTF-8, a token other than PX) fails with
\* InvalidArgument.
C16_SetOptions ==
    Interpreted /\ IsSetKeyValue =>
        LET opts == SetOpts
            plain == opts = <<>>
            pair == Len(opts) = 2 /\ IsPx(opts[1]) /\ IsMs(opts[2])
            dangling == Len(opts) = 1 /\ IsPx(opts[1])
            made == /\ cres.ok
                    /\ cres.cmd.name = "Set"
                    /\ cres.cmd.key = cval.a[2].b
                    /\ cres.cmd.value = cval.a[3].b
        IN  /\ plain => made /\ ~cres.cmd.has_px
            /\ pair => made /\ cres.cmd.has_px /\ cres.cmd.px = Decimal(MsDigits(opts[2].b))
            /\ dangling => ~cres.ok
            /\ ~plain /\ ~pair /\ ~dangling
                => ~cres.ok /\ cres.err.kind = "InvalidArgument"

\* C16 witness: set x x Px 1 Px, refused because PX comes twice
C16_Witness ==
    /\ IsSetKeyValue
    /\ Len(SetOpts) = 3
    /\ IsPx(SetOpts[1]) /\ IsMs(SetOpts[2]) /\ IsPx(SetOpts[3])
    /\ cres.err.kind = "InvalidArgument"

(***************************************************************************)
(* LiveSpec: two connections whose tasks are scheduled fairly, whose       *)
(* socket writes succeed and whose waits for the store lock end.           *)
(***************************************************************************)
\* What read_buf may return to a connection in one call: whole commands,
\* two commands at once, and bytes that are not a command
\*   c1: SET k v | GET k, PING | $-2\r\n
\*   c2: GET k | SET k w, GET k | ?\r\n | *1\r\n
LiveRequests(c) ==
    IF c = "c1" THEN
        { Request(<<VERB_SET, <<107>>, <<118>>>>),
          Request(<<VERB_GET, <<107>>>>) \o Request(<<VERB_PING>>),
          <<DOLLAR, MINUS, 50>> \o CRLF }
    ELSE
        { Request(<<VERB_GET, <<107>>>>),
          Request(<<VERB_SET, <<107>>, <<119>>>>) \o Request(<<VERB_GET, <<107>>>>),
          <<63>> \o CRLF,
          <<STAR, 49>> \o CRLF }

LiveInit ==
    /\ overflow_checks \in BOOLEAN
    /\ ServerInit(Conns)
    /\ net = [c \in Conns |-> <<>>]
    /\ HarnessIdle

\* read_buf returns the bytes the peer has sent
ReadPipelined(c) ==
    /\ sent < MaxRequests
    /\ \E r \in LiveRequests(c) : Receive(c, r)
    /\ sent' = sent + 1
    /\ UNCHANGED <<overflow_checks, db, mutex, now, net, out, cmd, adv, resp, hit,
                   vals, sets, gets, harnessVars>>

\* Err(ParserError::InvalidFormat(e)) when the write of the error line
\* succeeds (lines 39-43)
DecodeMalformedWritten(c) ==
    /\ DecodeMalformed(c)
    /\ pc'[c] = "closed_malformed"

\* The steps a task takes on its own, without its peer and without the lock
Run(c) ==
    \/ DecodeIncomplete(c)
    \/ DecodeMalformedWritten(c)
    \/ DecodePanic(c)
    \/ DecodeReject(c)
    \/ DecodeReply(c)
    \/ DecodeStore(c)
    \/ GetLookup(c)
    \/ GetFinish(c)
    \/ SetExec(c)
    \/ Write(c)

LiveNext ==
    \/ \E c \in Conns : ReadPipelined(c)
    \/ \E c \in Conns : Run(c)
    \/ \E c \in Conns : Lock(c)

\* The positions in which a task has a step of its own to take
Runnable ==
    {"parse", "get_lookup", "get_finish", "set_insert", "write"}

\* Run(c) is enabled in every Runnable position: whatever parse and
\* from_resp return, one arm of the match of lines 27-44 is taken
RunEnabled ==
    \A c \in Conns :
        pc[c] = "parse" =>
            \/ Decoded(c).tag \in {"Incomplete", "InvalidFormat", "Panic"}
            \/ Decoded(c).tag = "Ok" /\ ~Parsed(c).ok
            \/ Decoded(c).tag = "Ok" /\ Parsed(c).ok
                    /\ Parsed(c).cmd.name \in {"Ping", "Echo", "Get", "Set"}

\* WF_vars(Run(c)), with ENABLED <<Run(c)>>_vars written as the state
\* predicate it is equal to (RunEnabled): a task that can run does run (the
\* runtime polls every spawned task)
WeakFairRun(c) ==
    []<>(pc[c] \notin Runnable) \/ []<><<Run(c)>>_vars

\* Every task is scheduled, and a task that waits for the lock gets it
\* (Mutex::lock returns)
LiveFairness ==
    \A c \in Conns : WeakFairRun(c) /\ SF_vars(Lock(c))

LiveSpec ==
    LiveInit /\ [][LiveNext]_vars /\ LiveFairness

(***************************************************************************)
(* Progress of the connections, under LiveSpec                             *)
(***************************************************************************)
\* C21: a decode that succeeds consumes at least one byte; the drain loop
\* of a connection that is decoding ends, in Incomplete (the connection
\* reads again) or in Malformed (the connection is closed); when a
\* connection blocks for more input its buffer holds no complete value and
\* every value decoded so far has had its reply written; a connection that
\* waits for the store lock gets it, and a connection that holds it gives
\* it back.
C21_DrainAndReply ==
    /\ [](\A c \in Conns : Decoded(c).tag = "Ok" => Decoded(c).consumed >= 1)
    /\ \A c \in Conns : (pc[c] = "parse") ~> (pc[c] \in {"read", "closed_malformed"})
    /\ [](\A c \in Conns :
            pc[c] = "read" => Decoded(c).tag = "Incomplete" /\ out[c].n = vals[c].n)
    /\ \A c \in Conns : (pc[c] = "lock") ~> (mutex = c)
    /\ \A c \in Conns : (mutex = c) ~> (mutex # c)

====
